---- MODULE Spec2Model ----
(***************************************************************************)
(* Ambient memory retrieval (src/patches/ambient-memory.ts, V3).           *)
(*                                                                         *)
(* One call of resolveAmbientMemory is modelled end to end: the guards on  *)
(* the raw message, the query normalisation of searchMemory, the python    *)
(* subprocess that walks the three ChromaDB collections, the parse of its  *)
(* standard output, and the packing of the context block.                  *)
(*                                                                         *)
(* Strings the code inspects (the raw message, the query, source labels)   *)
(* are TLA+ strings.  A stored document is [id, len]: id stands for its    *)
(* content and len for its length in characters.  Distances are integers   *)
(* in thousandths (0.8 is 800), so that the 0.8 weight is exact.           *)
(***************************************************************************)
EXTENDS Integers, Sequences, FiniteSets, TLC

VARIABLES
    pc,          \* position of the resolveAmbientMemory / searchMemory call
    msg,         \* messageText
    query,       \* searchMemory: the normalised query
    storeCalls,  \* number of execFileSync invocations made by this call
    pypc,        \* position of the python subprocess ("off" when not running)
    col,         \* python: index of the next collection of priority_collections
    all_chunks,  \* python: all_chunks
    stdout,      \* lines the subprocess has written to standard output
    store,       \* what the vector store answered, per collection, in this call
    execError,   \* the error execFileSync threw, or None
    chunks,      \* resolveAmbientMemory: the lines searchMemory returned
    result,      \* the string the call resolved with
    outcome      \* "pending", "resolved" or "rejected" (the promise)

vars == <<pc, msg, query, storeCalls, pypc, col, all_chunks, stdout, store,
          execError, chunks, result, outcome>>

----------------------------------------------------------------------------
(* Program constants *)

MAX_CONTEXT_CHARS == 2500
MIN_MESSAGE_LENGTH == 2
MAX_DISTANCE == 800
SENTINEL_DISTANCE == 99000
TEXT_LIMIT == 400
N_RESULTS == 15

(* Bounds of the model *)

\* the largest number of matches one collection returns to a query
MaxMatches == 2

----------------------------------------------------------------------------
(* JavaScript string helpers *)

\* Python's None, for a string and for a distance (real distances are >= 0)
None == "None"
NoDistance == -1

CharAt(s, i) == SubSeq(s, i, i)

UpperLetters == "ABCDEFGHIJKLMNOPQRSTUVWXYZ"
LowerLetters == "abcdefghijklmnopqrstuvwxyz"

LowerOf ==
    [c \in {CharAt(UpperLetters, i) : i \in 1..Len(UpperLetters)} |->
        CharAt(LowerLetters, CHOOSE i \in 1..Len(UpperLetters) :
                                 CharAt(UpperLetters, i) = c)]

LowerChar(c) == IF c \in DOMAIN LowerOf THEN LowerOf[c] ELSE c

RECURSIVE ToLowerCase(_)
ToLowerCase(s) ==
    IF Len(s) = 0 THEN "" ELSE LowerChar(Head(s)) \o ToLowerCase(Tail(s))

StartsWith(s, p) == Len(s) >= Len(p) /\ SubSeq(s, 1, Len(p)) = p

Includes(s, p) ==
    \E i \in 1..(Len(s) - Len(p) + 1) : SubSeq(s, i, i + Len(p) - 1) = p

IsSpace(c) == c \in {" ", "\n", "\t"}

IsLineTerminator(c) == c = "\n"

RECURSIVE TrimStart(_)
TrimStart(s) ==
    IF Len(s) > 0 /\ IsSpace(Head(s)) THEN TrimStart(Tail(s)) ELSE s

RECURSIVE TrimEnd(_)
TrimEnd(s) ==
    IF Len(s) > 0 /\ IsSpace(CharAt(s, Len(s)))
    THEN TrimEnd(SubSeq(s, 1, Len(s) - 1))
    ELSE s

Trim(s) == TrimEnd(TrimStart(s))

\* s.replace(/^\[.*?\]\s*/g, ""): the lazy .*? stops at the first "]", and
\* "." matches no line terminator
StripBracketTag(s) ==
    IF Len(s) > 0 /\ Head(s) = "[" /\ \E j \in 2..Len(s) : CharAt(s, j) = "]"
    THEN LET j == CHOOSE k \in 2..Len(s) :
                      /\ CharAt(s, k) = "]"
                      /\ \A l \in 2..(k - 1) : CharAt(s, l) # "]"
         IN  IF \E l \in 2..(j - 1) : IsLineTerminator(CharAt(s, l))
             THEN s
             ELSE TrimStart(SubSeq(s, j + 1, Len(s)))
    ELSE s

\* s.replace(/^System:\s*/gi, "")
StripRoleMarker(s) ==
    IF StartsWith(ToLowerCase(s), "system:")
    THEN TrimStart(SubSeq(s, 8, Len(s)))
    ELSE s

Normalize(s) == Trim(StripRoleMarker(StripBracketTag(s)))

NoiseMarkers ==
    {"heartbeat", "self-ping keepalive", "read heartbeat.md", "cron job",
     "hook hook:"}

\* variant: the markers are matched without lowering the message
IsNoiseCaseSensitive(s) ==
    \/ \E m \in NoiseMarkers : Includes(s, m)
    \/ StartsWith(s, "system:")

\* variant: the noise filter has no "system:" prefix test
IsNoiseWithoutRolePrefix(s) ==
    \E m \in NoiseMarkers : Includes(ToLowerCase(s), m)

IsNoise(s) ==
    LET lower == ToLowerCase(s)
    IN  \/ \E m \in NoiseMarkers : Includes(lower, m)
        \/ StartsWith(lower, "system:")

TooShort(s) == Len(s) = 0 \/ Len(s) < MIN_MESSAGE_LENGTH

Rejected(s) == TooShort(s) \/ IsNoise(s)

----------------------------------------------------------------------------
(* The vector store, as the python script sees it *)

priority_collections == <<"memory_summaries", "telegram_memory", "workspace_memory">>

NumCollections == Len(priority_collections)

Min(a, b) == IF a < b THEN a ELSE b

\* The documents a query can match: length of the stored document, raw
\* distance in thousandths, and the "source" of its metadata (None: absent).
\* An exact match, a near match and a match beyond the ceiling whose weighted
\* distance (720) is below it.
MatchKinds ==
    { [len |-> 600, distance |-> 0,   source |-> None],
      [len |-> 200, distance |-> 300, source |-> "notes.md"],
      [len |-> 600, distance |-> 900, source |-> None] }

\* collection.query returns at most n_results matches, nearest first
MatchLists ==
    { ms \in UNION { [1..n -> MatchKinds] : n \in 0..Min(MaxMatches, N_RESULTS) } :
        \A i \in 1..(Len(ms) - 1) : ms[i].distance <= ms[i + 1].distance }

\* results of collection.query: results["documents"][0], results["distances"]
\* (hasDistances is FALSE when the engine returns none) and, for
\* results["metadatas"][0], the "source" of each match's metadata
QueryResults(c) ==
    { [documents |-> [i \in 1..Len(ms) |-> [id |-> <<c, i>>, len |-> ms[i].len]],
       distances |-> IF withDist THEN [i \in 1..Len(ms) |-> ms[i].distance] ELSE <<>>,
       hasDistances |-> withDist,
       metadatas |-> [i \in 1..Len(ms) |-> ms[i].source]] :
        ms \in MatchLists, withDist \in BOOLEAN }

NoResults ==
    [documents |-> <<>>, distances |-> <<>>, hasDistances |-> FALSE,
     metadatas |-> <<>>]

\* What the store can answer for collection c: get_collection raises
\* ("missing"), count() raises, count() is 0 ("empty"), query raises, or
\* query returns results.
Responses(c) ==
    { [status |-> st, results |-> NoResults] :
        st \in {"missing", "count_error", "empty", "query_error"} }
    \cup { [status |-> "ok", results |-> r] : r \in QueryResults(c) }

Unasked == [status |-> "unasked", results |-> NoResults]

----------------------------------------------------------------------------
(* The python script of searchMemory *)

\* dist = results["distances"][0][i] if results["distances"] else None
DistanceOf(results, i) ==
    IF results.hasDistances THEN results.distances[i] ELSE NoDistance

\* source = meta.get("source", col_name)
SourceOf(results, i, col_name) ==
    IF results.metadatas[i] # None THEN results.metadatas[i] ELSE col_name

\* (dist * 0.8) if is_summary else dist, for a dist that is a number
Weighted(dist, is_summary) == IF is_summary THEN (dist * 8) \div 10 ELSE dist

\* variant: the ceiling is tested on the weighted distance
DiscardedByWeighted(dist, is_summary) ==
    dist # NoDistance /\ Weighted(dist, is_summary) > MAX_DISTANCE

\* if dist is not None and dist > MAX_DISTANCE: continue
Discarded(dist, is_summary) == dist # NoDistance /\ dist > MAX_DISTANCE

\* None * 0.8 raises TypeError
WeightRaises(dist, is_summary) == is_summary /\ dist = NoDistance

\* effective_dist or 99
OrSentinel(effective_dist) ==
    IF effective_dist = NoDistance \/ effective_dist = 0
    THEN SENTINEL_DISTANCE
    ELSE effective_dist

\* doc[:400]
Truncate(doc) == [id |-> doc.id, len |-> Min(doc.len, TEXT_LIMIT)]

\* the dict appended to all_chunks for match i
ChunkOf(results, i, col_name) ==
    LET dist == DistanceOf(results, i)
        is_summary == col_name = "memory_summaries"
    IN  [text |-> Truncate(results.documents[i]),
         source |-> SourceOf(results, i, col_name),
         distance |-> OrSentinel(IF dist = NoDistance THEN NoDistance
                                 ELSE Weighted(dist, is_summary)),
         type |-> IF is_summary THEN "summary" ELSE "raw"]

\* the loop over results["documents"][0], from match i on; acc is all_chunks.
\* Returns [raised, chunks]: raised when an iteration raises an exception.
RECURSIVE ProcessMatches(_, _, _, _)
ProcessMatches(results, i, col_name, acc) ==
    IF i > Len(results.documents)
    THEN [raised |-> FALSE, chunks |-> acc]
    ELSE LET dist == DistanceOf(results, i)
             is_summary == col_name = "memory_summaries"
         IN  IF Discarded(dist, is_summary)
             THEN ProcessMatches(results, i + 1, col_name, acc)
             ELSE IF WeightRaises(dist, is_summary)
             THEN [raised |-> TRUE, chunks |-> acc]
             ELSE ProcessMatches(results, i + 1, col_name,
                                 Append(acc, ChunkOf(results, i, col_name)))

\* all_chunks.sort(key=lambda x: x["distance"]): a stable sort
RECURSIVE InsertSorted(_, _)
InsertSorted(sorted, c) ==
    IF sorted = <<>> THEN <<c>>
    ELSE IF c.distance < sorted[Len(sorted)].distance
         THEN Append(InsertSorted(SubSeq(sorted, 1, Len(sorted) - 1), c),
                     sorted[Len(sorted)])
         ELSE Append(sorted, c)

RECURSIVE SortByDistance(_)
SortByDistance(s) ==
    IF s = <<>> THEN <<>>
    ELSE InsertSorted(SortByDistance(SubSeq(s, 1, Len(s) - 1)), s[Len(s)])

\* Lines of standard output.  "array" is json.dumps(all_chunks), "error" is
\* json.dumps({"error": ...}), "invalid" starts with "[" but is no JSON
\* document, "log" is any other text.
ArrayLine(cs) == [kind |-> "array", items |-> cs]
ErrorLine == [kind |-> "error", items |-> <<>>]
InvalidLine == [kind |-> "invalid", items |-> <<>>]
LogLine == [kind |-> "log", items |-> <<>>]

----------------------------------------------------------------------------
(* searchMemory after execFileSync, and the packing of resolveAmbientMemory *)

\* l.startsWith("[") || l.startsWith("{")
LooksLikeJson(line) == line.kind \in {"array", "error", "invalid"}

\* `[${chunk.source}] ${chunk.text}`
FormatChunk(chunk) == [source |-> chunk.source, text |-> chunk.text]

LineLength(line) == 1 + Len(line.source) + 2 + line.text.len

\* lines 98-116: the value searchMemory returns for the captured output;
\* JSON.parse throwing lands in the catch, which returns []
ParseOutput(out) ==
    LET jsonLines == SelectSeq(out, LooksLikeJson)
    IN  IF jsonLines = <<>> THEN <<>>
        ELSE LET parsed == jsonLines[Len(jsonLines)]
             IN  IF parsed.kind = "invalid" THEN <<>>
                 ELSE IF parsed.kind = "error" THEN <<>>
                 ELSE [i \in 1..Len(parsed.items) |-> FormatChunk(parsed.items[i])]

\* variant: the output captured before the error is parsed all the same
OnExecErrorKeepsOutput(err, out) == ParseOutput(out)

\* the catch of searchMemory: whatever execFileSync threw, and whatever the
\* subprocess had written by then, the result is []
OnExecError(err, out) == <<>>

RECURSIVE JoinedLength(_)
JoinedLength(lines) ==
    IF lines = <<>> THEN 0
    ELSE IF Len(lines) = 1 THEN LineLength(lines[1])
    ELSE LineLength(Head(lines)) + 1 + JoinedLength(Tail(lines))

\* variant: the first line that does not fit is cut to the room left
RECURSIVE PackFromTruncating(_, _)
PackFromTruncating(context, rest) ==
    IF rest = <<>> THEN context
    ELSE IF JoinedLength(context) + LineLength(Head(rest)) + 2 > MAX_CONTEXT_CHARS
         THEN LET room == MAX_CONTEXT_CHARS - 2 - JoinedLength(context)
                          - (LineLength(Head(rest)) - Head(rest).text.len)
              IN  IF room <= 0 THEN context
                  ELSE Append(context,
                              [source |-> Head(rest).source,
                               text |-> [id |-> Head(rest).text.id, len |-> room]])
         ELSE PackFromTruncating(Append(context, Head(rest)), Tail(rest))

\* for (const chunk of chunks) { if (...) break; context += ... }
RECURSIVE PackFrom(_, _)
PackFrom(context, rest) ==
    IF rest = <<>> THEN context
    ELSE IF JoinedLength(context) + LineLength(Head(rest)) + 2 > MAX_CONTEXT_CHARS
         THEN context
         ELSE PackFrom(Append(context, Head(rest)), Tail(rest))

HEADER ==
    "[Ambient memory - relevant context from past conversations]\n"
    \o "[These are past memories, not current truth. Facts may be outdated. "
    \o "Use them as background context to inform your reasoning, "
    \o "not as conclusions to repeat.]\n"

EmptyString == [header |-> "", lines |-> <<>>]

StringLength(r) == Len(r.header) + JoinedLength(r.lines)

\* lines 148-165
BuildResult(cs) ==
    IF Len(cs) = 0 THEN EmptyString
    ELSE LET context == PackFrom(<<>>, cs)
         IN  IF context = <<>> THEN EmptyString
             ELSE [header |-> HEADER, lines |-> context]

----------------------------------------------------------------------------
(* Messages *)

Messages ==
    { "", "a", "hi", " x ", "[ts] h", "[ts] system: h",
      "System: hi", "SYSTEM:", "system: status report", "sYsTeM:x",
      " System: hi", "[ts] System: hi", "[a\nb] System: ok",
      "HeartBeat check", "please read HEARTBEAT.md", "Self-Ping Keepalive",
      "the cron job ran", "Hook hook: deploy", "[ts] heartbeat",
      "System: cron job heartbeat ping",
      "What's the deployment process?" }

----------------------------------------------------------------------------
(* The state machine *)

Init ==
    /\ pc = "idle"
    /\ msg = ""
    /\ query = ""
    /\ storeCalls = 0
    /\ pypc = "off"
    /\ col = 0
    /\ all_chunks = <<>>
    /\ stdout = <<>>
    /\ store = [c \in 1..NumCollections |-> Unasked]
    /\ execError = None
    /\ chunks = <<>>
    /\ result = EmptyString
    /\ outcome = "pending"

\* a caller invokes resolveAmbientMemory(m)
Receive(m) ==
    /\ pc = "idle"
    /\ pc' = "entry"
    /\ msg' = m
    /\ UNCHANGED <<query, storeCalls, pypc, col, all_chunks, stdout, store,
                   execError, chunks, result, outcome>>

\* lines 130-145: the length guard and the noise filter return ""
RejectInput ==
    /\ pc = "entry"
    /\ Rejected(msg)
    /\ pc' = "done"
    /\ result' = EmptyString
    /\ outcome' = "resolved"
    /\ UNCHANGED <<msg, query, storeCalls, pypc, col, all_chunks, stdout,
                   store, execError, chunks>>

\* lines 147, 28-35: searchMemory normalises the message; a query shorter
\* than the minimum returns [] before the try block
EnterSearch ==
    /\ pc = "entry"
    /\ ~Rejected(msg)
    /\ query' = Normalize(msg)
    /\ IF Len(query') = 0 \/ Len(query') < MIN_MESSAGE_LENGTH
       THEN /\ chunks' = <<>>
            /\ pc' = "assemble"
       ELSE /\ chunks' = chunks
            /\ pc' = "exec"
    /\ UNCHANGED <<msg, storeCalls, pypc, col, all_chunks, stdout, store,
                   execError, result, outcome>>

\* line 92: execFileSync cannot start the interpreter (the venv is missing)
SpawnFails ==
    /\ pc = "exec"
    /\ storeCalls' = storeCalls + 1
    /\ execError' = "ENOENT"
    /\ pc' = "caught"
    /\ UNCHANGED <<msg, query, pypc, col, all_chunks, stdout, store, chunks,
                   result, outcome>>

\* line 92: execFileSync starts the interpreter and blocks
Spawn ==
    /\ pc = "exec"
    /\ storeCalls' = storeCalls + 1
    /\ pc' = "waiting"
    /\ pypc' = "import"
    /\ UNCHANGED <<msg, query, col, all_chunks, stdout, store, execError,
                   chunks, result, outcome>>

\* script lines 47-53: import chromadb and open the client; either may
\* raise, and the library may write a log line to standard output
PyImport ==
    /\ pypc = "import"
    /\ \E ok \in BOOLEAN, logs \in BOOLEAN :
        /\ IF ok
           THEN /\ pypc' = "loop"
                /\ col' = 1
                /\ stdout' = IF logs THEN Append(stdout, LogLine) ELSE stdout
           ELSE /\ pypc' = "exit"
                /\ col' = col
                /\ stdout' = Append(IF logs THEN Append(stdout, LogLine) ELSE stdout,
                                    ErrorLine)
    /\ all_chunks' = <<>>
    /\ UNCHANGED <<pc, msg, query, storeCalls, store, execError, chunks,
                   result, outcome>>

\* script lines 55-84: one iteration of the loop over priority_collections
PyCollection ==
    /\ pypc = "loop"
    /\ col <= NumCollections
    /\ \E r \in Responses(priority_collections[col]) :
        /\ store' = [store EXCEPT ![col] = r]
        /\ IF r.status \in {"missing", "empty"}
           THEN /\ col' = col + 1
                /\ UNCHANGED <<all_chunks, stdout, pypc>>
           ELSE IF r.status \in {"count_error", "query_error"}
           THEN /\ stdout' = Append(stdout, ErrorLine)
                /\ pypc' = "exit"
                /\ UNCHANGED <<all_chunks, col>>
           ELSE LET done == ProcessMatches(r.results, 1,
                                           priority_collections[col], all_chunks)
                IN  IF done.raised
                    THEN /\ stdout' = Append(stdout, ErrorLine)
                         /\ pypc' = "exit"
                         /\ all_chunks' = done.chunks
                         /\ col' = col
                    ELSE /\ all_chunks' = done.chunks
                         /\ col' = col + 1
                         /\ UNCHANGED <<stdout, pypc>>
    /\ UNCHANGED <<pc, msg, query, storeCalls, execError, chunks, result,
                   outcome>>

\* script lines 86-87: sort and print; json.dumps may emit a token that is
\* no JSON (NaN for a distance that is not a number)
PySortPrint ==
    /\ pypc = "loop"
    /\ col > NumCollections
    /\ \E valid \in BOOLEAN :
        stdout' = Append(stdout, IF valid \/ all_chunks = <<>>
                                 THEN ArrayLine(SortByDistance(all_chunks))
                                 ELSE InvalidLine)
    /\ pypc' = "exit"
    /\ UNCHANGED <<pc, msg, query, storeCalls, col, all_chunks, store,
                   execError, chunks, result, outcome>>

\* the subprocess exits with status 0 and execFileSync returns its output;
\* lines 96-116
ExecReturns ==
    /\ pc = "waiting"
    /\ pypc = "exit"
    /\ pypc' = "off"
    /\ chunks' = ParseOutput(stdout)
    /\ pc' = "assemble"
    /\ UNCHANGED <<msg, query, storeCalls, col, all_chunks, stdout, store,
                   execError, result, outcome>>

\* the subprocess is killed at SEARCH_TIMEOUT_MS, or dies with a non-zero
\* status: execFileSync throws; the process, its memory and the answers it
\* had received are gone, what it had written stays in the error
ExecThrows ==
    /\ pc = "waiting"
    /\ pypc # "off"
    /\ \E err \in {"ETIMEDOUT", "EXIT"} : execError' = err
    /\ pypc' = "off"
    /\ col' = 0
    /\ all_chunks' = <<>>
    /\ store' = [c \in 1..NumCollections |-> Unasked]
    /\ pc' = "caught"
    /\ UNCHANGED <<msg, query, storeCalls, stdout, chunks, result, outcome>>

\* lines 117-122: the catch of searchMemory
SearchCatch ==
    /\ pc = "caught"
    /\ chunks' = OnExecError(execError, stdout)
    /\ pc' = "assemble"
    /\ UNCHANGED <<msg, query, storeCalls, pypc, col, all_chunks, stdout,
                   store, execError, result, outcome>>

\* lines 148-165: pack the lines and return
Assemble ==
    /\ pc = "assemble"
    /\ result' = BuildResult(chunks)
    /\ outcome' = "resolved"
    /\ pc' = "done"
    /\ UNCHANGED <<msg, query, storeCalls, pypc, col, all_chunks, stdout,
                   store, execError, chunks>>

\* the call is over; nothing survives it
Forget ==
    /\ pc = "done"
    /\ pc' = "idle"
    /\ msg' = ""
    /\ query' = ""
    /\ storeCalls' = 0
    /\ pypc' = "off"
    /\ col' = 0
    /\ all_chunks' = <<>>
    /\ stdout' = <<>>
    /\ store' = [c \in 1..NumCollections |-> Unasked]
    /\ execError' = None
    /\ chunks' = <<>>
    /\ result' = EmptyString
    /\ outcome' = "pending"

Next ==
    \/ \E m \in Messages : Receive(m)
    \/ RejectInput
    \/ EnterSearch
    \/ SpawnFails
    \/ Spawn
    \/ PyImport
    \/ PyCollection
    \/ PySortPrint
    \/ ExecReturns
    \/ ExecThrows
    \/ SearchCatch
    \/ Assemble
    \/ Forget

Spec == Init /\ [][Next]_vars


----------------------------------------------------------------------------
(* Vocabulary of the properties *)

\* the JSON document searchMemory reads: the last line that looks like JSON
JsonLines == SelectSeq(stdout, LooksLikeJson)

PrintedArray == JsonLines # <<>> /\ JsonLines[Len(JsonLines)].kind = "array"

\* the ranked candidate sequence the subprocess printed
Ranked == IF PrintedArray THEN JsonLines[Len(JsonLines)].items ELSE <<>>

ColIndex(name) ==
    CHOOSE c \in 1..NumCollections : priority_collections[c] = name

\* the raw distance the store returned for the match a chunk or line was
\* made from (NoDistance when it returned none)
RawDistance(x) ==
    DistanceOf(store[ColIndex(x.text.id[1])].results, x.text.id[2])

IsPrimary(x) == x.text.id[1] = "memory_summaries"

\* match i of collection c, as the store answered it in this call
Matches ==
    { <<c, i>> \in (1..NumCollections) \X (1..N_RESULTS) :
        store[c].status = "ok" /\ i <= Len(store[c].results.documents) }

IdOf(m) == <<priority_collections[m[1]], m[2]>>

MatchDistance(m) == DistanceOf(store[m[1]].results, m[2])

\* every place a candidate can be after the store answered
Appears(id) ==
    \/ \E k \in 1..Len(all_chunks) : all_chunks[k].text.id = id
    \/ \E l \in 1..Len(stdout) :
           \E k \in 1..Len(stdout[l].items) : stdout[l].items[k].text.id = id
    \/ \E k \in 1..Len(chunks) : chunks[k].text.id = id
    \/ \E k \in 1..Len(result.lines) : result.lines[k].text.id = id

Returned == pc = "done"

Searched == storeCalls > 0

----------------------------------------------------------------------------
(* C1 *)

\* C1: the string resolveAmbientMemory returns, disclaimer header included,
\* is never longer than MAX_CONTEXT_CHARS.
C1_OutputWithinBudget ==
    Returned => StringLength(result) <= MAX_CONTEXT_CHARS

----------------------------------------------------------------------------
(* C2 *)

\* the store query failed: execFileSync threw (interpreter missing, crash,
\* timeout), or the output holds no JSON array (an error object, an
\* unparseable document, nothing), or no collection exists
QueryFailed ==
    \/ execError # None
    \/ ~PrintedArray
    \/ \A c \in 1..NumCollections : store[c].status = "missing"

\* C2: when the store query fails in any way, the call resolves with the
\* empty string and does not reject; a retrieval cut off by the timeout
\* yields no partial result.
C2_FailureYieldsEmpty ==
    (Returned /\ Searched /\ QueryFailed)
        => (result = EmptyString /\ outcome = "resolved")

\* a retrieval that had printed candidates was cut off by the timeout, and
\* the call returned
C2_Witness ==
    /\ Returned
    /\ execError = "ETIMEDOUT"
    /\ Ranked # <<>>
    /\ result = EmptyString

----------------------------------------------------------------------------
(* C3 *)

ContainsNoiseMarker(m) ==
    \E marker \in NoiseMarkers : Includes(ToLowerCase(m), marker)

MustBeRejected(m) ==
    \/ Len(m) < MIN_MESSAGE_LENGTH
    \/ Len(Normalize(m)) < MIN_MESSAGE_LENGTH
    \/ ContainsNoiseMarker(m)

MessagesToReject == {m \in Messages : MustBeRejected(m)}

\* C3: for a message that is empty, too short, too short once normalised, or
\* that contains a noise marker, the subprocess is never started during the
\* call and the call returns the empty string.
C3_RejectedBeforeStore ==
    (pc # "idle" /\ msg \in MessagesToReject)
        => /\ storeCalls = 0
           /\ pypc = "off"
           /\ Returned => (result = EmptyString /\ outcome = "resolved")

\* a message that passes the guards of resolveAmbientMemory and is rejected
\* by searchMemory on its normalised query
C3_Witness ==
    /\ Returned
    /\ storeCalls = 0
    /\ Len(msg) >= MIN_MESSAGE_LENGTH
    /\ ~ContainsNoiseMarker(msg)
    /\ Len(Normalize(msg)) < MIN_MESSAGE_LENGTH

----------------------------------------------------------------------------
(* C4 *)

\* C4: a match whose raw distance is above MAX_DISTANCE never becomes a
\* candidate and never appears in the output, whatever its tier and its
\* weighted distance.
C4_AboveCeilingDiscarded ==
    \A m \in Matches :
        (MatchDistance(m) # NoDistance /\ MatchDistance(m) > MAX_DISTANCE)
            => ~Appears(IdOf(m))

\* the primary tier returned a match above the ceiling whose weighted
\* distance is below it, next to one that survives, and the call returned a
\* context block
C4_Witness ==
    /\ Returned
    /\ result # EmptyString
    /\ \E m \in Matches :
        /\ m[1] = 1
        /\ MatchDistance(m) > MAX_DISTANCE
        /\ Weighted(MatchDistance(m), TRUE) <= MAX_DISTANCE

----------------------------------------------------------------------------
(* C5 *)

\* C5: of two surviving candidates with equal raw distance, one of the
\* primary tier and one of a fallback tier, the primary one has the strictly
\* lower adjusted distance and is ranked first; raw distance 0 included.
C5_PrimaryStrictlyFirst ==
    \A i, j \in 1..Len(Ranked) :
        ( /\ IsPrimary(Ranked[i])
          /\ ~IsPrimary(Ranked[j])
          /\ RawDistance(Ranked[i]) # NoDistance
          /\ RawDistance(Ranked[i]) = RawDistance(Ranked[j]) )
            => (Ranked[i].distance < Ranked[j].distance /\ i < j)

----------------------------------------------------------------------------
(* C6 *)

Survives(m) ==
    ~(MatchDistance(m) # NoDistance /\ MatchDistance(m) > MAX_DISTANCE)

\* C6: when a collection fails at its lookup, its count or its query, or
\* returns nothing, the surviving candidates of the other collections are
\* still in what the subprocess prints.
C6_FaultIsolation ==
    ( /\ pypc = "exit"
      /\ \E f \in 1..NumCollections :
            store[f].status \in {"missing", "count_error", "empty", "query_error"} )
        => \A m \in Matches :
               Survives(m) =>
                   \E k \in 1..Len(Ranked) : Ranked[k].text.id = IdOf(m)

----------------------------------------------------------------------------
(* C7 *)

RankedLines == [i \in 1..Len(Ranked) |-> FormatChunk(Ranked[i])]

RECURSIVE SumOfLengths(_, _)
SumOfLengths(lines, n) ==
    IF n = 0 THEN 0 ELSE SumOfLengths(lines, n - 1) + LineLength(lines[n])

\* length of the newline-join of the first n lines
PrefixLength(lines, n) ==
    IF n = 0 THEN 0 ELSE SumOfLengths(lines, n) + (n - 1)

Fits(lines, j) ==
    PrefixLength(lines, j - 1) + LineLength(lines[j]) + 2 <= MAX_CONTEXT_CHARS

\* the number of lines packed: every line up to k fits, and line k + 1, if
\* there is one, does not
PackedCount(lines) ==
    CHOOSE k \in 0..Len(lines) :
        /\ \A j \in 1..k : Fits(lines, j)
        /\ k < Len(lines) => ~Fits(lines, k + 1)

----------------------------------------------------------------------------
(* C8 *)

\* C8: within one tier the ranking preserves the order of the raw
\* distances: a candidate with the smaller raw distance, 0 included, is
\* never ranked after one with a larger raw distance.
C8_OrderWithinTier ==
    \A i, j \in 1..Len(Ranked) :
        ( /\ IsPrimary(Ranked[i]) = IsPrimary(Ranked[j])
          /\ RawDistance(Ranked[i]) # NoDistance
          /\ RawDistance(Ranked[j]) # NoDistance
          /\ RawDistance(Ranked[i]) < RawDistance(Ranked[j]) )
            => i < j

----------------------------------------------------------------------------
(* C9 *)

\* C9: a match returned without a distance is kept, in every tier, as a
\* candidate with the sentinel distance, ranked after every candidate that
\* has a real distance; the retrieval of the other matches succeeds.
C9_MissingDistanceKept ==
    ( /\ pypc = "exit"
      /\ JsonLines # <<>>
      /\ JsonLines[Len(JsonLines)].kind # "invalid"
      /\ \A c \in 1..NumCollections :
            store[c].status \in {"ok", "missing", "empty"} )
        => \A m \in Matches :
               MatchDistance(m) = NoDistance =>
                   \E k \in 1..Len(Ranked) :
                       /\ Ranked[k].text.id = IdOf(m)
                       /\ Ranked[k].distance = SENTINEL_DISTANCE
                       /\ \A l \in 1..Len(Ranked) :
                              RawDistance(Ranked[l]) # NoDistance => l < k

----------------------------------------------------------------------------
(* C10 *)

BeginsWithRoleMarker(m) == StartsWith(ToLowerCase(m), "system:")

\* the normaliser's role-marker step removes something from the message
MarkerStripped(m) == StripRoleMarker(StripBracketTag(m)) # StripBracketTag(m)

HasLeadingTag(m) == StripBracketTag(m) # m

RoleMarkerMessages == {m \in Messages : BeginsWithRoleMarker(m)}
MarkerStrippedMessages == {m \in Messages : MarkerStripped(m)}
TaggedMessages == {m \in Messages : HasLeadingTag(m)}

\* C10: a message that begins with "system:" in any case is rejected before
\* any store call; so whenever the subprocess is started for a message whose
\* role marker the normaliser strips, the marker follows a leading
\* bracketed tag.
C10_RoleMarkerRejected ==
    /\ (pc # "idle" /\ msg \in RoleMarkerMessages)
          => /\ storeCalls = 0
             /\ pypc = "off"
             /\ Returned => result = EmptyString
    /\ (Searched /\ msg \in MarkerStrippedMessages) => msg \in TaggedMessages

\* the subprocess ran for a message whose role marker was stripped
C10_Witness ==
    /\ Returned
    /\ Searched
    /\ msg \in MarkerStrippedMessages
    /\ query = "hi"

====
